---- MODULE Spec2Model ----
(***************************************************************************)
(* Deep Zoom pyramid geometry (DeepZoomImageDescriptor) and tile           *)
(* production (ImageCreator) of scripts/makePosterMontage.py.              *)
(*                                                                         *)
(* Representation of Python values:                                        *)
(*   - a float scale 0.5^k is represented by its exponent k;               *)
(*   - numeric constructor arguments tile_size and tile_overlap are given  *)
(*     in tenths (25 stands for 2.5), image_quality in thousandths         *)
(*     (555 stands for 0.555);                                             *)
(*   - a call's outcome is a record [status, value]: status "ok" with the  *)
(*     returned tuple, or the name of the exception raised.                *)
(***************************************************************************)
EXTENDS Integers, Sequences, FiniteSets, TLC

VARIABLES
    descriptor,   \* the DeepZoomImageDescriptor object (self.descriptor in ImageCreator)
    call,         \* the last geometry query on the descriptor and its outcome
    args,         \* the arguments ImageCreator was constructed with
    creator,      \* the ImageCreator's configuration fields
    source,       \* the bitmap handed to create
    image,        \* self.image
    level,        \* create's loop variable
    level_image,  \* create's level_image
    todo,         \* tiles the generator of tiles(level) has still to yield
    files,        \* tile files on disk
    dzi,          \* the descriptor file on disk
    pc            \* position of create

vars == <<descriptor, call, args, creator, source, image, level, level_image,
          todo, files, dzi, pc>>

creatorVars == <<args, creator, source, image, level, level_image, todo, files, dzi, pc>>

----------------------------------------------------------------------------
(* Bounds *)

MaxDim == 5          \* descriptor widths and heights 1..MaxDim in the tile specification
MaxTileSize == 3     \* tile sizes 1..MaxTileSize
MaxOverlap == 3      \* descriptor overlaps 0..MaxOverlap
MaxNegDim == 2       \* non-positive dimensions -MaxNegDim..0 in the level specification
MaxSourceDim == 3    \* widths and heights 1..MaxSourceDim of the bitmaps given to create
MaxTileArg == 2      \* whole tile_size arguments 1 .. MaxTileArg
MaxUnderOverlap == 1 \* whole tile_overlap arguments from -MaxUnderOverlap ..
MaxOverOverlap == 1  \* .. to OVERLAP_LIMIT + MaxOverOverlap

----------------------------------------------------------------------------
(* Python helpers *)

Max(a, b) == IF a >= b THEN a ELSE b

Min(a, b) == IF a <= b THEN a ELSE b

\* math.ceil(a / b) for b > 0 (\div is floor division)
CeilDiv(a, b) == -((-a) \div b)

\* The smallest k with 2^k >= n, for 1 <= n <= 2^30: the real ceil(log2(n)).
CeilLog2(n) == CHOOSE k \in 0..30 : 2^k >= n /\ (k = 0 \/ 2^(k-1) < n)

\* Arguments n >= 1 below 2^30 for which the double math.log(n, 2), computed as
\* log(n)/log(2), lies above the real log2(n) by enough to change its ceiling:
\* math.log(2**29, 2) = 29.000000000000004.
LogRoundsUp == {2^29}

\* int(math.ceil(math.log(n, 2))) for n >= 1
MathLog2Ceil(n) == CeilLog2(n) + (IF n \in LogRoundsUp THEN 1 ELSE 0)

----------------------------------------------------------------------------
(* DeepZoomImageDescriptor *)

\* self._num_levels = None
NoneLevels == 0

DEFAULT_IMAGE_FORMAT == "png"

DefaultTileSize == 254

DefaultTileOverlap == 1

\* DeepZoomImageDescriptor.__init__
NewDescriptor(width, height, tile_size, tile_overlap, tile_format) ==
    [width |-> width, height |-> height, tile_size |-> tile_size,
     tile_overlap |-> tile_overlap, tile_format |-> tile_format,
     _num_levels |-> NoneLevels]

Ok(value) == [status |-> "ok", value |-> value]

Raise(exception) == [status |-> exception, value |-> <<>>]

\* the property num_levels: math.log raises ValueError on a non-positive argument
num_levels(d) ==
    IF d._num_levels # NoneLevels THEN Ok(<<d._num_levels>>)
    ELSE LET max_dimension == Max(d.width, d.height)
         IN  IF max_dimension <= 0 THEN Raise("ValueError")
             ELSE Ok(<<MathLog2Ceil(max_dimension) + 1>>)

\* the descriptor after an evaluation of self.num_levels (memoization)
Memoized(d) ==
    IF num_levels(d).status = "ok"
    THEN [d EXCEPT !._num_levels = num_levels(d).value[1]]
    ELSE d

\* assert 0 <= level and level < self.num_levels, "Invalid pyramid level":
\* for a level < 0 the "and" does not evaluate self.num_levels
LevelAssert(d, lv) ==
    IF ~(0 <= lv) THEN "AssertionError"
    ELSE IF num_levels(d).status # "ok" THEN num_levels(d).status
    ELSE IF lv < num_levels(d).value[1] THEN "ok"
    ELSE "AssertionError"

\* the descriptor after a method has made that assert on lv: self.num_levels
\* is evaluated, and memoized, only for a level >= 0
AfterLevelAssert(d, lv) == IF 0 <= lv THEN Memoized(d) ELSE d

\* get_scale: math.pow(0.5, max_level - level), returned as its exponent
get_scale(d, lv) ==
    IF LevelAssert(d, lv) # "ok" THEN Raise(LevelAssert(d, lv))
    ELSE LET max_level == num_levels(d).value[1] - 1
         IN  Ok(<<max_level - lv>>)

\* get_dimensions: int(math.ceil(self.width * scale)), same for the height
get_dimensions(d, lv) ==
    IF LevelAssert(d, lv) # "ok" THEN Raise(LevelAssert(d, lv))
    ELSE LET scale == get_scale(d, lv).value[1]
             width == CeilDiv(d.width, 2^scale)
             height == CeilDiv(d.height, 2^scale)
         IN  Ok(<<width, height>>)

\* get_num_tiles rounding the tile counts down instead of up
get_num_tiles_Floor(d, lv) ==
    IF LevelAssert(d, lv) # "ok" THEN Raise(LevelAssert(d, lv))
    ELSE LET w == get_dimensions(d, lv).value[1]
             h == get_dimensions(d, lv).value[2]
         IN  Ok(<<w \div d.tile_size, h \div d.tile_size>>)

\* get_num_tiles
get_num_tiles(d, lv) ==
    IF LevelAssert(d, lv) # "ok" THEN Raise(LevelAssert(d, lv))
    ELSE LET w == get_dimensions(d, lv).value[1]
             h == get_dimensions(d, lv).value[2]
         IN  Ok(<<CeilDiv(w, d.tile_size), CeilDiv(h, d.tile_size)>>)

\* get_tile_bounds subtracting the overlap in the first column and row too
get_tile_bounds_LeadingOverlap(d, lv, column, row) ==
    IF LevelAssert(d, lv) # "ok" THEN Raise(LevelAssert(d, lv))
    ELSE LET x == (column * d.tile_size) - d.tile_overlap
             y == (row * d.tile_size) - d.tile_overlap
             level_width == get_dimensions(d, lv).value[1]
             level_height == get_dimensions(d, lv).value[2]
             w0 == d.tile_size + (IF column = 0 THEN 1 ELSE 2) * d.tile_overlap
             h0 == d.tile_size + (IF row = 0 THEN 1 ELSE 2) * d.tile_overlap
             w == Min(w0, level_width - x)
             h == Min(h0, level_height - y)
         IN  Ok(<<x, y, x + w, y + h>>)

\* get_tile_bounds
get_tile_bounds(d, lv, column, row) ==
    IF LevelAssert(d, lv) # "ok" THEN Raise(LevelAssert(d, lv))
    ELSE LET offset_x == IF column = 0 THEN 0 ELSE d.tile_overlap
             offset_y == IF row = 0 THEN 0 ELSE d.tile_overlap
             x == (column * d.tile_size) - offset_x
             y == (row * d.tile_size) - offset_y
             level_width == get_dimensions(d, lv).value[1]
             level_height == get_dimensions(d, lv).value[2]
             w0 == d.tile_size + (IF column = 0 THEN 1 ELSE 2) * d.tile_overlap
             h0 == d.tile_size + (IF row = 0 THEN 1 ELSE 2) * d.tile_overlap
             w == Min(w0, level_width - x)
             h == Min(h0, level_height - y)
         IN  Ok(<<x, y, x + w, y + h>>)

----------------------------------------------------------------------------
(* Geometry queries on a descriptor, as actions *)

NoCall == [op |-> "none", level |-> 0, column |-> 0, row |-> 0,
           status |-> "ok", value |-> <<>>]

Query(op, lv, column, row, outcome) ==
    [op |-> op, level |-> lv, column |-> column, row |-> row,
     status |-> outcome.status, value |-> outcome.value]

\* levels probed: one below and one above every level a descriptor can have
ProbeLevels(maxdim) == -1 .. (CeilLog2(maxdim) + 2)

\* (queries are made one at a time: the program is sequential)
\* columns and rows probed: one below and one above every index a grid can have
ProbeIndexes == -1 .. MaxDim

\* the caller takes the outcome of its query; the next query can follow
Return ==
    /\ call # NoCall
    /\ call' = NoCall
    /\ UNCHANGED descriptor
    /\ UNCHANGED creatorVars

\* remove calls _remove, a name the module does not define
CallRemove ==
    /\ call = NoCall
    /\ call' = Query("remove", 0, 0, 0, Raise("NameError"))
    /\ UNCHANGED descriptor
    /\ UNCHANGED creatorVars

CallNumLevels ==
    /\ call = NoCall
    /\ call' = Query("num_levels", 0, 0, 0, num_levels(descriptor))
    /\ descriptor' = Memoized(descriptor)
    /\ UNCHANGED creatorVars

CallGetScale(probes) ==
    \E lv \in probes :
        /\ call = NoCall
        /\ call' = Query("get_scale", lv, 0, 0, get_scale(descriptor, lv))
        /\ descriptor' = AfterLevelAssert(descriptor, lv)
        /\ UNCHANGED creatorVars

CallGetDimensions(probes) ==
    \E lv \in probes :
        /\ call = NoCall
        /\ call' = Query("get_dimensions", lv, 0, 0, get_dimensions(descriptor, lv))
        /\ descriptor' = AfterLevelAssert(descriptor, lv)
        /\ UNCHANGED creatorVars

CallGetNumTiles(probes) ==
    \E lv \in probes :
        /\ call = NoCall
        /\ call' = Query("get_num_tiles", lv, 0, 0, get_num_tiles(descriptor, lv))
        /\ descriptor' = AfterLevelAssert(descriptor, lv)
        /\ UNCHANGED creatorVars

CallGetTileBounds(probes) ==
    \E lv \in probes, column \in ProbeIndexes, row \in ProbeIndexes :
        /\ call = NoCall
        /\ call' = Query("get_tile_bounds", lv, column, row,
                         get_tile_bounds(descriptor, lv, column, row))
        /\ descriptor' = AfterLevelAssert(descriptor, lv)
        /\ UNCHANGED creatorVars

----------------------------------------------------------------------------
(* ImageCreator *)

IMAGE_FORMATS == {"jpg", "png"}

\* the names RESIZE_FILTERS maps, each to the PIL filter it selects
RESIZE_FILTERS == [cubic |-> "CUBIC", bilinear |-> "BILINEAR", bicubic |-> "BICUBIC",
                   nearest |-> "NEAREST", antialias |-> "ANTIALIAS"]

\* float("nan"), the one float no comparison orders: image_quality is a float,
\* thousandths stand for the finite ones
NaN == -(2^30)

\* val < other on Python numbers: False when either is NaN
PyLess(val, other) == val # NaN /\ other # NaN /\ val < other

\* int(v) of a number given in tenths: truncation toward zero
PyInt(tenths) == IF tenths >= 0 THEN tenths \div 10 ELSE -((-tenths) \div 10)

_clamp(val, min, max) ==
    IF PyLess(val, min) THEN min
    ELSE IF PyLess(max, val) THEN max
    ELSE val

\* the upper limit of tile_overlap in __init__
OVERLAP_LIMIT == 10

\* the upper limit 1.0 of image_quality in __init__, in thousandths
QUALITY_LIMIT == 1000

\* ImageCreator.__init__ (copy_metadata is stored and never read)
ImageCreatorInit(a) ==
    [tile_size |-> PyInt(a.tile_size),
     tile_format |-> IF a.tile_format \in IMAGE_FORMATS THEN a.tile_format
                     ELSE DEFAULT_IMAGE_FORMAT,
     tile_overlap |-> _clamp(PyInt(a.tile_overlap), 0, OVERLAP_LIMIT),
     image_quality |-> _clamp(a.image_quality, 0, QUALITY_LIMIT),
     resize_filter |-> a.resize_filter]

\* PIL's Image.resize: a new bitmap, one resampling further from the source
Resize(bitmap, size, filter) ==
    [size |-> size, resamplings |-> bitmap.resamplings + 1, filter |-> filter]

\* get_image resampling the previous level's bitmap instead of self.image
get_image_Chained(lv) ==
    LET size == get_dimensions(descriptor, lv).value
    IN  IF descriptor.width = size[1] /\ descriptor.height = size[2] THEN image
        ELSE IF creator.resize_filter = "None"
                  \/ creator.resize_filter \notin DOMAIN RESIZE_FILTERS
             THEN Resize(level_image, size, "ANTIALIAS")
             ELSE Resize(level_image, size, RESIZE_FILTERS[creator.resize_filter])

\* get_image, for a level of the descriptor
get_image(lv) ==
    LET size == get_dimensions(descriptor, lv).value
    IN  IF descriptor.width = size[1] /\ descriptor.height = size[2] THEN image
        ELSE IF creator.resize_filter = "None"
                  \/ creator.resize_filter \notin DOMAIN RESIZE_FILTERS
             THEN Resize(image, size, "ANTIALIAS")
             ELSE Resize(image, size, RESIZE_FILTERS[creator.resize_filter])

\* tiles(level): the (column, row) pairs in the order the generator yields them
tiles(lv) ==
    LET columns == get_num_tiles(descriptor, lv).value[1]
        rows == get_num_tiles(descriptor, lv).value[2]
    IN  [i \in 1 .. (columns * rows) |-> <<(i - 1) \div rows, (i - 1) % rows>>]

\* Qualities q (thousandths, 0..1000) whose double product q/1000 * 100 lies
\* below the real q/10 by enough to change its integer part:
\* 0.29 * 100 = 28.999999999999996.
ProductRoundsDown == {290, 570, 580}

\* int(self.image_quality * 100); int() of NaN raises ValueError
jpeg_quality(q) ==
    IF q = NaN THEN Raise("ValueError")
    ELSE Ok(<<(q \div 10) - (IF q \in ProductRoundsDown THEN 1 ELSE 0)>>)

\* Qualities q whose double (1 - q/1000) * 10 lies above a real tie n + 1/2:
\* (1 - 0.95) * 10 = 0.5000000000000004.
TieRoundsUp == {950}

\* round((1 - self.image_quality) * 10): to the nearest integer, a tie to the
\* even one; round() of NaN raises ValueError
png_compress(q) ==
    IF q = NaN THEN Raise("ValueError")
    ELSE LET whole == (1000 - q) \div 100
             rest == (1000 - q) % 100
         IN  Ok(<<IF rest < 50 THEN whole
                  ELSE IF rest > 50 \/ q \in TieRoundsUp THEN whole + 1
                  ELSE IF whole % 2 = 0 THEN whole ELSE whole + 1>>)

\* the encoder call of a tile: lines 240-245
Encoding ==
    IF descriptor.tile_format = "jpg"
    THEN [encoder |-> "JPEG", param |-> jpeg_quality(creator.image_quality)]
    ELSE [encoder |-> "PNG", param |-> png_compress(creator.image_quality)]

\* the file of a tile: its path (level, column, row, format) and what was written
TileFile(lv, column, row, complete) ==
    [level |-> lv, column |-> column, row |-> row,
     format |-> descriptor.tile_format,
     bounds |-> get_tile_bounds(descriptor, lv, column, row).value,
     bitmap |-> level_image,
     encoder |-> Encoding.encoder,
     param |-> Encoding.param.value,
     complete |-> complete]

\* what save writes: the attributes of the Image and Size elements
DziFile(d, written) ==
    [written |-> written, TileSize |-> d.tile_size, Overlap |-> d.tile_overlap,
     Format |-> d.tile_format, Width |-> d.width, Height |-> d.height]

NoDescriptor == NewDescriptor(0, 0, 0, 0, "none")

NoDzi == DziFile(NoDescriptor, "no")

\* the loop of line 221 taking one level less
LevelsRemain_OneLess == level < num_levels(descriptor).value[1] - 1

\* for level in range(self.descriptor.num_levels): another level follows
LevelsRemain == level < num_levels(descriptor).value[1]

----------------------------------------------------------------------------
(* Values of the ImageCreator variables while no ImageCreator exists *)

NoBitmap == [size |-> <<0, 0>>, resamplings |-> 0, filter |-> "none"]

NoArgs == [tile_size |-> 0, tile_overlap |-> 0, tile_format |-> "none",
           image_quality |-> 0, resize_filter |-> "none"]

NoCreator == [tile_size |-> 0, tile_format |-> "none", tile_overlap |-> 0,
              image_quality |-> 0, resize_filter |-> "none"]

CreatorAbsent ==
    /\ args = NoArgs
    /\ creator = NoCreator
    /\ source = NoBitmap
    /\ image = NoBitmap
    /\ level = 0
    /\ level_image = NoBitmap
    /\ todo = <<>>
    /\ files = {}
    /\ dzi = NoDzi
    /\ pc = "none"

----------------------------------------------------------------------------
(* Specification of the level geometry: descriptors of any dimensions,     *)
(* non-positive and very large ones included.                              *)

BigDims == {2^29 - 1, 2^29, 2^29 + 1}

LevelDims == ((-MaxNegDim) .. MaxDim) \cup BigDims

LevelProbes == ProbeLevels(2^29 + 1)

InitLevels ==
    /\ \E width \in LevelDims, height \in LevelDims :
           descriptor = NewDescriptor(width, height, DefaultTileSize,
                                      DefaultTileOverlap, DEFAULT_IMAGE_FORMAT)
    /\ call = NoCall
    /\ CreatorAbsent

NextLevels ==
    \/ CallNumLevels
    \/ CallGetScale(LevelProbes)
    \/ CallGetDimensions(LevelProbes)
    \/ CallRemove
    \/ Return

SpecLevels == InitLevels /\ [][NextLevels]_vars

----------------------------------------------------------------------------
(* Specification of the tile geometry: descriptors of positive dimensions. *)

TileProbes == ProbeLevels(MaxDim)

InitTiles ==
    /\ \E width \in 1..MaxDim, height \in 1..MaxDim,
          tile_size \in 1..MaxTileSize, tile_overlap \in 0..MaxOverlap :
           descriptor = NewDescriptor(width, height, tile_size, tile_overlap,
                                      DEFAULT_IMAGE_FORMAT)
    /\ call = NoCall
    /\ CreatorAbsent

NextTiles ==
    \/ CallNumLevels
    \/ CallGetScale(TileProbes)
    \/ CallGetDimensions(TileProbes)
    \/ CallGetNumTiles(TileProbes)
    \/ CallGetTileBounds(TileProbes)
    \/ CallRemove
    \/ Return

SpecTiles == InitTiles /\ [][NextTiles]_vars

----------------------------------------------------------------------------
(* Properties of the geometry *)

\* the last query was op and returned
Returned(op) == call.op = op /\ call.status = "ok"

\* the level of the last query is a level of the descriptor
LevelInRange == LevelAssert(descriptor, call.level) = "ok"

\* the tile of the last query is a tile of its level's grid
TileInGrid ==
    /\ LevelInRange
    /\ call.column \in 0 .. (get_num_tiles(descriptor, call.level).value[1] - 1)
    /\ call.row \in 0 .. (get_num_tiles(descriptor, call.level).value[2] - 1)

\* C1 as stated: for width, height >= 1, num_levels is ceil(log2(max(width,
\* height))) + 1 and at least 1, and get_dimensions(num_levels - 1) is
\* (width, height).
C1_NumLevelsIsCeilLog2 ==
    (descriptor.width >= 1 /\ descriptor.height >= 1) =>
        /\ call.op = "num_levels" =>
              /\ call.status = "ok"
              /\ call.value[1] = CeilLog2(Max(descriptor.width, descriptor.height)) + 1
              /\ call.value[1] >= 1
        /\ (call.op = "get_dimensions"
              /\ call.level = num_levels(descriptor).value[1] - 1) =>
              /\ call.status = "ok"
              /\ call.value = <<descriptor.width, descriptor.height>>

\* C8 as stated: with width <= 0 or height <= 0, num_levels fails, and so do
\* the queries that depend on it: no level count or level dimensions come back.
C8_NonPositiveDimensionFails ==
    (descriptor.width <= 0 \/ descriptor.height <= 0) =>
        (call.op \in {"num_levels", "get_scale", "get_dimensions"} =>
            call.status # "ok")

\* C2 as stated: every tile's box lies inside its level,
\* 0 <= x1 < x2 <= levelWidth and 0 <= y1 < y2 <= levelHeight.
C2_BoundsInsideLevel ==
    (Returned("get_tile_bounds") /\ TileInGrid) =>
        LET dims == get_dimensions(descriptor, call.level).value
            x1 == call.value[1]
            y1 == call.value[2]
            x2 == call.value[3]
            y2 == call.value[4]
        IN  /\ 0 <= x1 /\ x1 < x2 /\ x2 <= dims[1]
            /\ 0 <= y1 /\ y1 < y2 /\ y2 <= dims[2]

\* C6 as stated: a query with a level outside [0, num_levels) fails with the
\* invalid-level error, and get_tile_bounds with a column or row outside its
\* level's grid fails too; no out-of-range query returns a value.
C6_OutOfRangeFails ==
    /\ (call.op \in {"get_scale", "get_dimensions", "get_num_tiles", "get_tile_bounds"}
          /\ ~LevelInRange) => call.status = "AssertionError"
    /\ (call.op = "get_tile_bounds" /\ LevelInRange /\ ~TileInGrid) =>
          call.status # "ok"

\* width (height) of a tile's box before the clamp to the level
Unclamped(index) ==
    descriptor.tile_size + (IF index = 0 THEN 1 ELSE 2) * descriptor.tile_overlap

\* C3 as stated, along one axis: index is the column (row), count the number
\* of columns (rows), lo and hi the box's x1 and x2 (y1 and y2).
AxisAsStated(index, count, lo, hi) ==
    /\ index = 0 => lo = 0
    /\ (index > 0 /\ index < count - 1) =>
          hi - lo = descriptor.tile_size + 2 * descriptor.tile_overlap
    /\ index < count - 1 => hi - lo = Unclamped(index)

\* C3 as stated: column 0 (row 0) starts at 0, a tile with column > 0 that is
\* not in the final column is tileSize + 2*tileOverlap wide, and the clamp
\* shortens a box only in the final column (row).
C3_ClampOnlyInFinalColumn ==
    (Returned("get_tile_bounds") /\ TileInGrid) =>
        LET grid == get_num_tiles(descriptor, call.level).value
        IN  /\ AxisAsStated(call.column, grid[1], call.value[1], call.value[3])
            /\ AxisAsStated(call.row, grid[2], call.value[2], call.value[4])

\* C3 as amended, along one axis of extent pixels.
AxisAmended(index, extent, lo, hi) ==
    LET fits == (index + 1) * descriptor.tile_size + descriptor.tile_overlap <= extent
    IN  /\ index = 0 => lo = 0
        /\ fits => hi - lo = Unclamped(index)
        /\ ~fits => (hi - lo < Unclamped(index) /\ hi = extent)

\* C3, amended: column 0 (row 0) starts at 0; a tile whose trailing overlap
\* fits in the level, (column+1)*tileSize + tileOverlap <= levelWidth, is
\* tileSize + tileOverlap wide in column 0 and tileSize + 2*tileOverlap wide in
\* a column > 0; the clamp shortens a box (to end at the level's edge) exactly
\* when (column+1)*tileSize + tileOverlap > levelWidth. The same for rows.
C3_ClampWhereOverlapPassesEdge ==
    (Returned("get_tile_bounds") /\ TileInGrid) =>
        LET dims == get_dimensions(descriptor, call.level).value
        IN  /\ AxisAmended(call.column, dims[1], call.value[1], call.value[3])
            /\ AxisAmended(call.row, dims[2], call.value[2], call.value[4])

\* a tile in an interior column came back full width, in a row that is not
\* the final one and was shortened
C3_Witness ==
    /\ Returned("get_tile_bounds") /\ TileInGrid
    /\ descriptor.tile_overlap > 0
    /\ call.column > 0
    /\ call.column < get_num_tiles(descriptor, call.level).value[1] - 1
    /\ call.value[3] - call.value[1] = descriptor.tile_size + 2 * descriptor.tile_overlap
    /\ call.row < get_num_tiles(descriptor, call.level).value[2] - 1
    /\ call.value[4] - call.value[2] < Unclamped(call.row)

\* the core region of a column (row) of a level that is extent pixels wide
\* (high): the pixels index*tileSize .. min((index+1)*tileSize, extent) - 1
Core(index, extent) ==
    (index * descriptor.tile_size) ..
        (Min((index + 1) * descriptor.tile_size, extent) - 1)

\* C4: the grid get_num_tiles returned for a level tiles the level: every
\* tile's box contains its core region, and every pixel of the level lies in
\* the core of exactly one tile.
C4_CoresPartitionLevel ==
    Returned("get_num_tiles") =>
        LET dims == get_dimensions(descriptor, call.level).value
            columns == 0 .. (call.value[1] - 1)
            rows == 0 .. (call.value[2] - 1)
            box(c, r) == get_tile_bounds(descriptor, call.level, c, r).value
        IN  /\ \A c \in columns, r \in rows :
                  /\ \A px \in Core(c, dims[1]) : box(c, r)[1] <= px /\ px < box(c, r)[3]
                  /\ \A py \in Core(r, dims[2]) : box(c, r)[2] <= py /\ py < box(c, r)[4]
            /\ \A px \in 0 .. (dims[1] - 1), py \in 0 .. (dims[2] - 1) :
                  Cardinality({t \in columns \X rows :
                                  px \in Core(t[1], dims[1]) /\ py \in Core(t[2], dims[2])}) = 1

\* a level with several columns and rows, overlapping tiles and a final column
\* narrower than a tile
C4_Witness ==
    /\ Returned("get_num_tiles")
    /\ call.value[1] >= 2 /\ call.value[2] >= 2
    /\ descriptor.tile_overlap > 0
    /\ get_dimensions(descriptor, call.level).value[1] % descriptor.tile_size # 0

----------------------------------------------------------------------------
(* Specification of the ImageCreator: constructed with any arguments, then *)
(* one run of create, statement by statement.                              *)

TileSizeArgs == {10 * k : k \in 1 .. MaxTileArg} \cup {15}

OverlapArgs ==
    {10 * k : k \in (-MaxUnderOverlap) .. (OVERLAP_LIMIT + MaxOverOverlap)}
        \cup {-5, 5, 10 * OVERLAP_LIMIT + 5}

FormatArgs == {"png", "jpg", "bmp"}

QualityArgs == {NaN, -200, 290, 297, 800, 950, 1500}

FilterArgs == {"None", "antialias", "lanczos3"}

Init ==
    /\ args \in [tile_size : TileSizeArgs, tile_overlap : OverlapArgs,
                 tile_format : FormatArgs, image_quality : QualityArgs,
                 resize_filter : FilterArgs]
    /\ creator = ImageCreatorInit(args)
    /\ descriptor = NoDescriptor
    /\ call = NoCall
    /\ source = NoBitmap
    /\ image = NoBitmap
    /\ level = 0
    /\ level_image = NoBitmap
    /\ todo = <<>>
    /\ files = {}
    /\ dzi = NoDzi
    /\ pc = "ready"

\* create, lines 206-215: the source becomes self.image and the descriptor is
\* built from its size
CreateBegin ==
    /\ pc = "ready"
    /\ \E width \in 1..MaxSourceDim, height \in 1..MaxSourceDim :
          /\ source' = [size |-> <<width, height>>, resamplings |-> 0, filter |-> "none"]
          /\ image' = source'
          /\ descriptor' = NewDescriptor(width, height, creator.tile_size,
                                         creator.tile_overlap, creator.tile_format)
    /\ pc' = "files_path"
    /\ UNCHANGED <<call, args, creator, level, level_image, todo, files, dzi>>

\* lines 218-221: the tiles' directory exists or is made, and
\* range(self.descriptor.num_levels) is evaluated
MakeFilesPath ==
    /\ pc = "files_path"
    /\ descriptor' = Memoized(descriptor)
    /\ level' = 0
    /\ pc' = "for_level"
    /\ UNCHANGED <<call, args, creator, source, image, level_image, todo, files, dzi>>

\* line 218: making the tiles' directory raises, before num_levels is evaluated
FilesPathFails ==
    /\ pc = "files_path"
    /\ pc' = "raised_in_tiles"
    /\ UNCHANGED <<descriptor, call, args, creator, source, image, level,
                   level_image, todo, files, dzi>>

\* lines 226-229: the level's directory, its bitmap and its tile generator
StartLevel ==
    /\ pc = "for_level"
    /\ LevelsRemain
    /\ level_image' = get_image(level)
    /\ todo' = tiles(level)
    /\ pc' = "for_tile"
    /\ UNCHANGED <<descriptor, call, args, creator, source, image, level, files, dzi>>

\* lines 226, 227: making the level's directory or resampling raises
LevelSetupFails ==
    /\ pc = "for_level"
    /\ LevelsRemain
    /\ pc' = "raised_in_tiles"
    /\ UNCHANGED <<descriptor, call, args, creator, source, image, level,
                   level_image, todo, files, dzi>>

\* lines 234-245 for the next tile of the level
WriteTile ==
    /\ pc = "for_tile"
    /\ todo # <<>>
    /\ Encoding.param.status = "ok"
    /\ files' = files \cup {TileFile(level, Head(todo)[1], Head(todo)[2], TRUE)}
    /\ todo' = Tail(todo)
    /\ UNCHANGED <<descriptor, call, args, creator, source, image, level,
                   level_image, dzi, pc>>

\* lines 238-245 raise: open fails and leaves no file; the computation of the
\* encoder's parameter or the encoder fails and leaves an incomplete file
TileWriteFails ==
    /\ pc = "for_tile"
    /\ todo # <<>>
    /\ \E stage \in {"open", IF Encoding.param.status = "ok" THEN "save" ELSE "param"} :
          files' = IF stage = "open" THEN files
                   ELSE files \cup {TileFile(level, Head(todo)[1], Head(todo)[2], FALSE)}
    /\ pc' = "raised_in_tiles"
    /\ UNCHANGED <<descriptor, call, args, creator, source, image, level,
                   level_image, todo, dzi>>

\* the generator is exhausted: the loop of line 221 takes the next level
NextLevel ==
    /\ pc = "for_tile"
    /\ todo = <<>>
    /\ level' = level + 1
    /\ pc' = "for_level"
    /\ UNCHANGED <<descriptor, call, args, creator, source, image, level_image,
                   todo, files, dzi>>

\* range(num_levels) is exhausted
EndLevels ==
    /\ pc = "for_level"
    /\ ~LevelsRemain
    /\ pc' = "save"
    /\ UNCHANGED <<descriptor, call, args, creator, source, image, level,
                   level_image, todo, files, dzi>>

\* line 248: self.descriptor.save(destination)
SaveDescriptor ==
    /\ pc = "save"
    /\ dzi' = DziFile(descriptor, "yes")
    /\ pc' = "done"
    /\ UNCHANGED <<descriptor, call, args, creator, source, image, level,
                   level_image, todo, files>>

\* save raises: open fails and leaves no file, or the write fails and leaves
\* an incomplete one
SaveFails ==
    /\ pc = "save"
    /\ \E stage \in {"open", "write"} :
          dzi' = IF stage = "open" THEN dzi ELSE DziFile(descriptor, "partial")
    /\ pc' = "raised_in_save"
    /\ UNCHANGED <<descriptor, call, args, creator, source, image, level,
                   level_image, todo, files>>

Next ==
    \/ CreateBegin
    \/ MakeFilesPath
    \/ FilesPathFails
    \/ StartLevel
    \/ LevelSetupFails
    \/ WriteTile
    \/ TileWriteFails
    \/ NextLevel
    \/ EndLevels
    \/ SaveDescriptor
    \/ SaveFails

Spec == Init /\ [][Next]_vars

----------------------------------------------------------------------------
(* Properties of the ImageCreator *)

\* the tiles (level, column, row) of all levels of the descriptor
AllTiles ==
    UNION {{lv} \X (0 .. (get_num_tiles(descriptor, lv).value[1] - 1))
                \X (0 .. (get_num_tiles(descriptor, lv).value[2] - 1)) :
           lv \in 0 .. (num_levels(descriptor).value[1] - 1)}

\* the tiles whose file was written to the end
WrittenTiles == {<<f.level, f.column, f.row>> : f \in {g \in files : g.complete}}

\* C5: a descriptor file is written only once the tile files of all tiles of
\* all levels are complete, and a run of create that raised before save wrote
\* no descriptor file (it may leave tile files).
C5_DescriptorAfterAllTiles ==
    /\ dzi # NoDzi => (pc \in {"done", "raised_in_save"} /\ WrittenTiles = AllTiles)
    /\ pc = "raised_in_tiles" => dzi = NoDzi

\* create raised in a level after the first, leaving complete tile files of
\* earlier levels and no descriptor file
C5_Witness ==
    /\ pc = "raised_in_tiles"
    /\ level >= 1
    /\ \E f \in files : f.complete /\ f.level < level
    /\ dzi = NoDzi

\* C7 as stated: whatever the arguments, tile_overlap is clamped into [0, 10],
\* image_quality into [0.0, 1.0], a tile_format other than png or jpg becomes
\* png, and the descriptor create builds carries the effective tile_overlap and
\* tile_format.
C7_ConfigurationClamped ==
    /\ creator.tile_overlap \in 0 .. 10
    /\ PyInt(args.tile_overlap) > 10 => creator.tile_overlap = 10
    /\ PyInt(args.tile_overlap) < 0 => creator.tile_overlap = 0
    /\ PyInt(args.tile_overlap) \in 0 .. 10 => creator.tile_overlap = PyInt(args.tile_overlap)
    /\ creator.image_quality \in 0 .. 1000
    /\ creator.tile_format \in {"png", "jpg"}
    /\ args.tile_format \in {"png", "jpg"} => creator.tile_format = args.tile_format
    /\ args.tile_format \notin {"png", "jpg"} => creator.tile_format = "png"
    /\ pc # "ready" => /\ descriptor.tile_overlap = creator.tile_overlap
                       /\ descriptor.tile_format = creator.tile_format

\* the level being tiled has the bitmap get_image is to return: the source
\* itself at the finest level and at no other, else one resampling of the source
LevelBitmapFromSource ==
    LET size == get_dimensions(descriptor, level).value
    IN  /\ size = source.size <=> level = num_levels(descriptor).value[1] - 1
        /\ size = source.size => level_image = source
        /\ size # source.size => (level_image.size = size /\ level_image.resamplings = 1)

\* the levels before the one being tiled are complete, none after it is begun
LevelsInOrder ==
    /\ \A f \in files : f.level <= level
    /\ \A t \in AllTiles : t[1] < level => t \in WrittenTiles

\* C9: create takes the levels in ascending order from 0; self.image stays the
\* source given to create; each level's bitmap is the source itself when the
\* level has the source's dimensions (the finest level and no other) and
\* otherwise one resampling of the source to the level's dimensions; no tile
\* is cropped from a bitmap resampled more than once.
C9_LevelsFromSourceInOrder ==
    /\ [](pc # "ready" => (image = source /\ source.resamplings = 0))
    /\ [](pc = "for_tile" => (LevelBitmapFromSource /\ LevelsInOrder))
    /\ [](\A f \in files : f.bitmap.resamplings <= 1)
    /\ [][level' = level \/ level' = level + 1]_vars

\* the finest of at least three levels is being tiled from the source itself,
\* after tiles of level 0 were cropped from a resampling of the source
C9_Witness ==
    /\ pc = "for_tile"
    /\ level >= 2
    /\ level = num_levels(descriptor).value[1] - 1
    /\ level_image = source
    /\ \E f \in files : f.level = 0 /\ f.bitmap.resamplings = 1

\* C10 as stated: a jpg tile is encoded with quality round(imageQuality * 100),
\* the integer in [0, 100] nearest to a tenth of the quality in thousandths.
C10_JpegQualityRounded ==
    \A f \in files :
        (f.complete /\ f.format = "jpg") =>
            /\ f.encoder = "JPEG"
            /\ f.param[1] \in 0 .. 100
            /\ 10 * f.param[1] - creator.image_quality \in -5 .. 5

====
